---- MODULE Spec2Model ----
(***************************************************************************)
(* Diagram state engine of the UML class-diagram editor (FlowCanvas in     *)
(* src/src/app/page.tsx): Node Store, Edge Store, Selection State, the     *)
(* module-level id counter, the persisted blob and the asynchronous        *)
(* import.  Every handler runs to completion, and the save effect that     *)
(* follows each settled change of nodes/edges is part of the handler's     *)
(* action.  The node component (CustomUMLNode) and the edge component      *)
(* (FloatingEdge) are modelled where they decide what the engine is called *)
(* with: clicks, added rows and their timers, the focus mapping, offsets.  *)
(*                                                                         *)
(* Representation.  Node ids are the numerals the code builds from         *)
(* classCounter / newNodes.length, kept as naturals; null for a node id is *)
(* 0.  Callback fields, position and type are not state the engine reads   *)
(* and are left out.  A row (attribute/method text) is a string.           *)
(***************************************************************************)
EXTENDS Integers, Sequences, FiniteSets, TLC

VARIABLES
    nodes,                  \* useNodesState: sequence of node records
    edges,                  \* useEdgesState: sequence of edge records
    selectedNodeId,         \* useState<string | null>
    selectedEdgeId,         \* useState<string | null>
    selectedSectionIndex,   \* useState<number>
    classCounter,           \* module-level let classCounter
    isInitialized,          \* useState(false)
    storage,                \* localStorage item 'diagram-flow'
    reader,                 \* FileReader reads in flight (texts not yet delivered)
    timers,                 \* setTimeout(..., 0) callbacks of the node components
                            \* that have not run yet, in the order they were set
    last,                   \* history: the handler that ran last
    issued,                 \* history: ids handleAddNode issued, over all sessions
    session,                \* history: what this session loaded and issued
    ring,                   \* history: a run of consecutive Tab presses
    mount,                  \* history: the store the page was left with, the blob
                            \* the mount found and the blob after its first commit
    exported                \* history: the last export, its text and its store

vars == <<nodes, edges, selectedNodeId, selectedEdgeId, selectedSectionIndex,
          classCounter, isInitialized, storage, reader, timers, last,
          issued, session, ring, mount, exported>>

----------------------------------------------------------------------------
(* Bounds of the model *)

\* handleAddNode and onConnect are not offered once the diagram holds this many
\* nodes and edges together
MaxItems == 4
\* handleAddNode is not offered once classCounter exceeds this
MaxCounter == 2

----------------------------------------------------------------------------
(* Values *)

null == -1                  \* selectedSection: null
undefined == -1             \* edgeIndex / totalEdges absent from an edge's data
NoId == 0                   \* selectedNodeId: null
NoEdge == <<>>              \* selectedEdgeId: null

SourceHandles == {"right-source"}
TargetHandles == {"left-target"}
NoHandle == "undefined"

Max(S) == CHOOSE m \in S : \A x \in S : x <= m

Range(s) == {s[i] : i \in 1..Len(s)}

\* Array.prototype.filter over the results of the callback (passes[i] is the
\* callback's result on element i): the positions kept, in order
RECURSIVE Positions(_, _)
Positions(passes, i) ==
    IF i > Len(passes) THEN <<>>
    ELSE IF passes[i] THEN <<i>> \o Positions(passes, i + 1)
    ELSE Positions(passes, i + 1)

\* Array.prototype.findIndex over the results of the callback, 1-based;
\* 0 when nothing matches (-1 in the code)
FindIndex(passes) ==
    IF \E i \in 1..Len(passes) : passes[i]
    THEN CHOOSE i \in 1..Len(passes) : passes[i] /\ \A j \in 1..(i - 1) : ~passes[j]
    ELSE 0

\* mutant: an index at or past the end removes the last element
Splice1_AtLeastOne(s, index) ==
    IF index >= 0 /\ index < Len(s)
    THEN SubSeq(s, 1, index) \o SubSeq(s, index + 2, Len(s))
    ELSE SubSeq(s, 1, Len(s) - 1)
\* Array.prototype.splice(index, 1): a negative index counts from the end,
\* an index at or past the end removes nothing
Splice1(s, index) ==
    LET start == IF index < 0 THEN (IF Len(s) + index < 0 THEN 0 ELSE Len(s) + index)
                 ELSE index
    IN  IF start < Len(s)
        THEN SubSeq(s, 1, start) \o SubSeq(s, start + 2, Len(s))
        ELSE s

----------------------------------------------------------------------------
(* Records *)

\* `Class ${classCounter}`: a class name is its sequence of blank-separated words
DefaultClassName(n) == <<"Class", ToString(n)>>

DefaultAttributes == <<"attribute: Type">>
DefaultMethods == <<"method(): ReturnType">>

\* mutant: the new node has no placeholder rows
NewNode_NoPlaceholders(n) ==
    [id |-> n, className |-> DefaultClassName(n), attributes |-> <<>>,
     methods |-> <<>>, selectedSection |-> 0]
\* the node handleAddNode and the load effect's default branch build
NewNode(n) ==
    [id |-> n, className |-> DefaultClassName(n), attributes |-> DefaultAttributes,
     methods |-> DefaultMethods, selectedSection |-> 0]

\* `edge-${source}-${sourceHandle}-${target}-${targetHandle}-${Date.now()}`
ConnectEdgeId(source, sourceHandle, target, targetHandle, t) ==
    <<source, sourceHandle, target, targetHandle, t>>

\* the edge onConnect builds
NewEdge(source, sourceHandle, target, targetHandle, t) ==
    [id |-> ConnectEdgeId(source, sourceHandle, target, targetHandle, t),
     source |-> source, sourceHandle |-> sourceHandle,
     target |-> target, targetHandle |-> targetHandle,
     label |-> "Association", relationshipType |-> "association",
     edgeIndex |-> 0, totalEdges |-> 1, callbacks |-> TRUE]

\* attrCount / methodCount: `length || 1`
CountOr1(rows) == IF Len(rows) = 0 THEN 1 ELSE Len(rows)

\* totalSections of one node in the Tab handler
TotalSections(n) == 2 + CountOr1(n.attributes) + CountOr1(n.methods)

NodeIds(ns) == {ns[i].id : i \in 1..Len(ns)}

----------------------------------------------------------------------------
(* Store transformers: the updater functions the handlers pass to setNodes  *)
(* and setEdges                                                             *)

\* handleSelectSection's and the Tab handler's setNodes updater
MarkSection(ns, nodeId, section) ==
    [i \in 1..Len(ns) |->
        IF ns[i].id = nodeId
        THEN [ns[i] EXCEPT !.selectedSection = section]
        ELSE [ns[i] EXCEPT !.selectedSection = null]]

\* mutant: the pane click leaves the nodes as they are
ClearSections_Kept(ns) == ns
\* onPaneClick's setNodes updater
ClearSections(ns) == [i \in 1..Len(ns) |-> [ns[i] EXCEPT !.selectedSection = null]]

\* handleDeleteClass: setNodes(filter), setEdges(filter)
DeleteClassNodes(ns, nodeId) == SelectSeq(ns, LAMBDA n : n.id # nodeId)
\* mutants: the cascade filters on the source only; the cascade is left out
DeleteClassEdges_SourceOnly(es, nodeId) == SelectSeq(es, LAMBDA e : e.source # nodeId)
DeleteClassEdges_NoCascade(es, nodeId) == es
DeleteClassEdges(es, nodeId) ==
    SelectSeq(es, LAMBDA e : e.source # nodeId /\ e.target # nodeId)

\* mutant: the filter takes the edges of every pair
SamePair_EveryPair(e, sourceId, targetId) == TRUE
\* mutant: the filter misses the edges drawn in the other direction
SamePair_OneDirection(e, sourceId, targetId) ==
    e.source = sourceId /\ e.target = targetId
\* the filter of updateEdgeIndicesBetweenNodes
SamePair(e, sourceId, targetId) ==
    \/ e.source = sourceId /\ e.target = targetId
    \/ e.source = targetId /\ e.target = sourceId

\* updateEdgeIndicesBetweenNodes: sameEdges holds the objects of prev that join
\* the pair; includes/indexOf go by object identity, that is by position in prev
updateEdgeIndicesBetweenNodes(prev, sourceId, targetId) ==
    LET sameEdges == Positions([i \in 1..Len(prev) |-> SamePair(prev[i], sourceId, targetId)], 1)
        indexOf(i) == CHOOSE k \in 1..Len(sameEdges) : sameEdges[k] = i
    IN  [i \in 1..Len(prev) |->
            IF i \in Range(sameEdges)
            THEN [prev[i] EXCEPT !.edgeIndex = indexOf(i) - 1,
                                 !.totalEdges = Len(sameEdges)]
            ELSE prev[i]]

\* reactflow's addEdge as onConnect uses it: the edge is appended unless an edge
\* with the same source, target and handles is already in the list
connectionExists(edge, es) ==
    \E i \in 1..Len(es) :
        /\ es[i].source = edge.source
        /\ es[i].target = edge.target
        /\ es[i].sourceHandle = edge.sourceHandle
        /\ es[i].targetHandle = edge.targetHandle

addEdge(edge, es) == IF connectionExists(edge, es) THEN es ELSE Append(es, edge)

----------------------------------------------------------------------------
(* Persistence Bridge *)

EmptyStorage == [kind |-> "none"]          \* no item under 'diagram-flow'
CorruptBlob == [kind |-> "corrupt"]        \* JSON.parse throws
ShapelessBlob == [kind |-> "shapeless"]    \* parses, but parsed.nodes / parsed.edges is no list

\* saveDiagram: the callbacks are set to undefined, which JSON.stringify drops,
\* as it drops an edgeIndex / totalEdges that is undefined
saveDiagram(ns, es) ==
    [kind |-> "flow",
     nodes |-> [i \in 1..Len(ns) |->
                  [id |-> ns[i].id, className |-> ns[i].className,
                   attributes |-> ns[i].attributes, methods |-> ns[i].methods,
                   selectedSection |-> ns[i].selectedSection]],
     edges |-> [i \in 1..Len(es) |->
                  [id |-> es[i].id, source |-> es[i].source,
                   sourceHandle |-> es[i].sourceHandle,
                   target |-> es[i].target, targetHandle |-> es[i].targetHandle,
                   label |-> es[i].label,
                   relationshipType |-> es[i].relationshipType,
                   edgeIndex |-> es[i].edgeIndex, totalEdges |-> es[i].totalEdges]]]

\* mutant: the save effect writes whether or not the load has completed
SaveEffect_Unguarded(initialized, ns, es, stored) == saveDiagram(ns, es)
\* the save effect of one commit: the item under 'diagram-flow' after it, stored
\* being the item before it
SaveEffect(initialized, ns, es, stored) ==
    IF initialized THEN saveDiagram(ns, es) ELSE stored

\* the item under 'diagram-flow' when the load effect has run: the catch branch
\* removes it
LoadEffectStorage(blob) ==
    IF blob.kind \in {"corrupt", "shapeless"} THEN EmptyStorage ELSE blob

\* the load effect's parsed.nodes.map: the node's data with the callbacks re-bound
LoadedNodes(blob) ==
    [i \in 1..Len(blob.nodes) |->
        [id |-> blob.nodes[i].id, className |-> blob.nodes[i].className,
         attributes |-> blob.nodes[i].attributes, methods |-> blob.nodes[i].methods,
         selectedSection |-> blob.nodes[i].selectedSection]]

\* the load effect's parsed.edges.map: `||` replaces every falsy value
\* (undefined, '', 0) by the default
LoadedEdges(blob) ==
    [i \in 1..Len(blob.edges) |->
        LET e == blob.edges[i]
        IN  [id |-> e.id, source |-> e.source, sourceHandle |-> e.sourceHandle,
             target |-> e.target, targetHandle |-> e.targetHandle,
             label |-> IF e.label = "" THEN "Association" ELSE e.label,
             relationshipType |->
                 IF e.relationshipType = "" THEN "association" ELSE e.relationshipType,
             edgeIndex |-> IF e.edgeIndex \in {undefined, 0} THEN 0 ELSE e.edgeIndex,
             totalEdges |-> IF e.totalEdges \in {undefined, 0} THEN 1 ELSE e.totalEdges,
             callbacks |-> TRUE]]

\* Math.max(...loadedNodes.map((n) => parseInt(n.id, 10) || 1))
MaxLoadedId(ns) == Max({IF ns[i].id = 0 THEN 1 ELSE ns[i].id : i \in 1..Len(ns)})

\* mutant: the reseed forgets the + 1
ReseededCounter_NoIncrement(ns, counter) ==
    IF Len(ns) > 0 THEN MaxLoadedId(ns) ELSE counter
\* classCounter after the load effect has loaded ns
ReseededCounter(ns, counter) == IF Len(ns) > 0 THEN MaxLoadedId(ns) + 1 ELSE counter

----------------------------------------------------------------------------
(* Text Interchange: import.  A text is a sequence of lines, a line a        *)
(* sequence of blank-separated words.                                        *)

RelationWords == {"-->", "o--", "..>", "<|--", "*--"}
\* relation.includes('o')
IncludesO(relation) == relation \in {"o--"}
\* line.includes('()')
IncludesParens(line) == \E i \in 1..Len(line) : line[i] \in {"y()", "method():"}
\* a word made of \w characters only
IsWord(w) == w \in {"A", "B", "C", "x", "z", "Class", "class", "1", "2", "3"}

\* the row a body line stands for after trim(): its words joined by blanks
RowOf(line) ==
    IF Len(line) = 1 THEN line[1]
    ELSE IF line = <<"attribute:", "Type">> THEN "attribute: Type"
    ELSE IF line = <<"method():", "ReturnType">> THEN "method(): ReturnType"
    ELSE "?"

\* classRegex at line i: `class`, one word, `{`, then lazily up to the first `}`
ClassMatchEnd(text, i) ==
    IF /\ Len(text[i]) = 3 /\ text[i][1] = "class" /\ text[i][3] = "{"
       /\ \E j \in (i + 1)..Len(text) : text[j] = <<"}">>
    THEN CHOOSE j \in (i + 1)..Len(text) :
            text[j] = <<"}">> /\ \A k \in (i + 1)..(j - 1) : text[k] # <<"}">>
    ELSE 0

\* the while loop over classRegex.exec: the nodes pushed from line i on, newNodes
\* being the nodes pushed so far
RECURSIVE ParseClasses(_, _, _)
ParseClasses(text, i, newNodes) ==
    IF i > Len(text) THEN newNodes
    ELSE LET j == ClassMatchEnd(text, i)
         IN  IF j = 0 THEN ParseClasses(text, i + 1, newNodes)
             ELSE LET body == SubSeq(text, i + 1, j - 1)
                      attrs == SelectSeq(body, LAMBDA l : Len(l) > 0 /\ ~IncludesParens(l))
                      meths == SelectSeq(body, LAMBDA l : Len(l) > 0 /\ IncludesParens(l))
                      node == [id |-> Len(newNodes) + 1,
                               className |-> <<text[i][2]>>,
                               attributes |-> [k \in 1..Len(attrs) |-> RowOf(attrs[k])],
                               methods |-> [k \in 1..Len(meths) |-> RowOf(meths[k])],
                               selectedSection |-> null]
                  IN  ParseClasses(text, j + 1, Append(newNodes, node))

\* the words of the text in reading order (\s+ spans line ends)
RECURSIVE Words(_)
Words(text) == IF text = <<>> THEN <<>> ELSE Head(text) \o Words(Tail(text))

\* mutant: a name that is not found resolves to the first class
FindClassId_FirstClass(newNodes, name) ==
    LET i == FindIndex([i_ \in 1..Len(newNodes) |-> newNodes[i_].className = <<name>>])
    IN  IF i = 0 THEN (IF Len(newNodes) > 0 THEN newNodes[1].id ELSE NoId)
        ELSE newNodes[i].id
\* newNodes.find((n) => n.data.className === name)?.id, 0 when there is none
FindClassId(newNodes, name) ==
    LET i == FindIndex([i_ \in 1..Len(newNodes) |-> newNodes[i_].className = <<name>>])
    IN  IF i = 0 THEN NoId ELSE newNodes[i].id

\* the while loop over relationshipRegex.exec: word, relation, word
RECURSIVE ParseRelationships(_, _, _, _)
ParseRelationships(ws, i, newNodes, newEdges) ==
    IF i + 2 > Len(ws) THEN newEdges
    ELSE IF IsWord(ws[i]) /\ ws[i + 1] \in RelationWords /\ IsWord(ws[i + 2])
         THEN LET sourceId == FindClassId(newNodes, ws[i])
                  targetId == FindClassId(newNodes, ws[i + 2])
                  edge == [id |-> <<sourceId, targetId>>,
                           source |-> sourceId, sourceHandle |-> NoHandle,
                           target |-> targetId, targetHandle |-> NoHandle,
                           label |-> "Association",
                           relationshipType |->
                               IF IncludesO(ws[i + 1]) THEN "aggregation"
                               ELSE "association",
                           edgeIndex |-> undefined, totalEdges |-> undefined,
                           callbacks |-> FALSE]
              IN  ParseRelationships(ws, i + 3, newNodes,
                      IF sourceId # NoId /\ targetId # NoId
                      THEN Append(newEdges, edge) ELSE newEdges)
         ELSE ParseRelationships(ws, i + 1, newNodes, newEdges)

ImportedNodes(text) == ParseClasses(text, 1, <<>>)
ImportedEdges(text) == ParseRelationships(Words(text), 1, ImportedNodes(text), <<>>)

----------------------------------------------------------------------------
(* Text Interchange: export *)

\* mutant: the dependency case falls through to the aggregation symbol
RelationSymbol_DependencyAsAggregation(rt) ==
    IF rt = "inheritance" THEN "<|--"
    ELSE IF rt \in {"aggregation", "dependency"} THEN "o--"
    ELSE IF rt = "composition" THEN "*--"
    ELSE "-->"
\* the switch over edge.data?.relationshipType || 'association'
RelationSymbol(rt) ==
    IF rt = "inheritance" THEN "<|--"
    ELSE IF rt = "aggregation" THEN "o--"
    ELSE IF rt = "composition" THEN "*--"
    ELSE IF rt = "dependency" THEN "..>"
    ELSE "-->"

\* the words of the line `  ${row}`
WordsOfRow(row) ==
    IF row = "" THEN <<>>
    ELSE IF row = "attribute: Type" THEN <<"attribute:", "Type">>
    ELSE IF row = "method(): ReturnType" THEN <<"method():", "ReturnType">>
    ELSE <<row>>

\* rows.map((a) => `  ${a}`).join('\n'), as lines: one empty line when there
\* is no row
JoinedRows(rows) ==
    IF Len(rows) = 0 THEN << <<>> >> ELSE [k \in 1..Len(rows) |-> WordsOfRow(rows[k])]

\* `class ${className} {\n${attrs}\n${meths}\n}`, as lines
NodeDeclaration(n) ==
    << <<"class">> \o n.className \o <<"{">> >>
        \o JoinedRows(n.attributes) \o JoinedRows(n.methods) \o << <<"}">> >>

RECURSIVE NodeDeclarations(_)
NodeDeclarations(ns) ==
    IF ns = <<>> THEN <<>> ELSE NodeDeclaration(Head(ns)) \o NodeDeclarations(Tail(ns))

\* nodes.find((n) => n.id === id)?.data.className, <<>> when there is none
ClassNameOf(ns, id) ==
    LET i == FindIndex([i_ \in 1..Len(ns) |-> ns[i_].id = id])
    IN  IF i = 0 THEN <<>> ELSE ns[i].className

\* the line of one edge, <<>> ('') when an end has no class name
EdgeDeclaration(ns, e) ==
    LET sourceName == ClassNameOf(ns, e.source)
        targetName == ClassNameOf(ns, e.target)
    IN  IF sourceName = <<>> \/ targetName = <<>> THEN <<>>
        ELSE sourceName \o <<RelationSymbol(e.relationshipType)>> \o targetName

\* exportToPlantUML's text, as lines: header and footer end in '\n' themselves
exportText(ns, es) ==
    << <<"@startuml">>, <<>> >>
        \o NodeDeclarations(ns)
        \o SelectSeq([i \in 1..Len(es) |-> EdgeDeclaration(ns, es[i])],
                     LAMBDA line : line # <<>>)
        \o << <<"@enduml">>, <<>> >>

\* the files the user may pick
TextLoop ==
    << <<"class", "A", "{">>, <<"attribute:", "Type">>, <<"method():", "ReturnType">>, <<"}">>,
       <<"A", "-->", "A">>, <<"A", "o--", "A">>, <<"A", "-->", "C">> >>
TextWide ==
    << <<"class", "A", "{">>, <<"x">>, <<"z">>, <<>>, <<"}">> >>
TextPairs ==
    << <<"class", "A", "{">>, <<"}">>, <<"class", "B", "{">>, <<"}">>,
       <<"A", "-->", "A">>, <<"A", "-->", "B">> >>

----------------------------------------------------------------------------
(* Handlers.  Each is one event run to completion, with the save effect     *)
(* that follows a change of nodes or edges once isInitialized is set.       *)

history == <<issued, session, ring, mount, exported>>

\* last: the handler that ran, the node id it was given (deleteNode), and the
\* number of edges in the store when it started (handlers that remove edges)
Did(op, id, edgesBefore) == last' = [op |-> op, id |-> id, edgesBefore |-> edgesBefore]

NoSession == [from |-> "none", loadedIds |-> {}, issuedIds |-> <<>>]
NoRing == [count |-> 0, total |-> 0, startId |-> NoId, startSection |-> 0]
NoMount == [left |-> [known |-> FALSE, nodes |-> <<>>, edges |-> <<>>],
            before |-> EmptyStorage, mid |-> EmptyStorage]
NoExport == [text |-> <<>>, nodes |-> <<>>, edges |-> <<>>]

Init ==
    /\ nodes = <<>>
    /\ edges = <<>>
    /\ selectedNodeId = NoId
    /\ selectedEdgeId = NoEdge
    /\ selectedSectionIndex = 0
    /\ classCounter = 1
    /\ isInitialized = FALSE
    /\ storage \in {EmptyStorage, CorruptBlob, ShapelessBlob}
    /\ reader = {}
    /\ timers = <<>>
    /\ last = [op |-> "start", id |-> NoId, edgesBefore |-> 0]
    /\ issued = {}
    /\ session = NoSession
    /\ ring = NoRing
    /\ mount = NoMount
    /\ exported = NoExport

\* the item under 'diagram-flow' after the effects of the first commit: the load
\* effect, then the save effect with the state that commit rendered
FirstCommitStorage == SaveEffect(isInitialized, nodes, edges, LoadEffectStorage(storage))

\* the mount: the effects of the first commit (load the stored flow, or seed the
\* default node, or recover from a blob that does not parse), then the save
\* effect of the commit that renders the loaded state
LoadEffect ==
    /\ ~isInitialized
    /\ IF storage.kind = "flow"
       THEN /\ nodes' = LoadedNodes(storage)
            /\ edges' = LoadedEdges(storage)
            /\ classCounter' = ReseededCounter(LoadedNodes(storage), classCounter)
       ELSE IF storage.kind = "none"
       THEN /\ nodes' = <<NewNode(1)>>
            /\ edges' = edges
            /\ classCounter' = classCounter
       ELSE /\ nodes' = <<>>
            /\ edges' = <<>>
            /\ classCounter' = classCounter
    /\ isInitialized' = TRUE
    /\ storage' = SaveEffect(isInitialized', nodes', edges', FirstCommitStorage)
    /\ Did("load", NoId, 0)
    /\ UNCHANGED <<selectedNodeId, selectedEdgeId, selectedSectionIndex, reader>>

\* the page is opened again: component state and the module-level counter start
\* over, the stored item stays
OpenPage ==
    /\ isInitialized
    /\ nodes' = <<>>
    /\ edges' = <<>>
    /\ selectedNodeId' = NoId
    /\ selectedEdgeId' = NoEdge
    /\ selectedSectionIndex' = 0
    /\ classCounter' = 1
    /\ isInitialized' = FALSE
    /\ reader' = {}
    /\ last' = [op |-> "start", id |-> NoId, edgesBefore |-> 0]
    /\ UNCHANGED storage

handleAddNode ==
    /\ isInitialized
    /\ Len(nodes) + Len(edges) < MaxItems
    /\ classCounter <= MaxCounter
    /\ nodes' = Append(nodes, NewNode(classCounter))
    /\ selectedNodeId' = classCounter
    /\ selectedSectionIndex' = 0
    /\ classCounter' = classCounter + 1
    /\ storage' = saveDiagram(nodes', edges)
    /\ Did("addNode", NoId, 0)
    /\ UNCHANGED <<edges, selectedEdgeId, isInitialized, reader>>

handleDeleteClass(nodeId) ==
    /\ isInitialized
    /\ nodes' = DeleteClassNodes(nodes, nodeId)
    /\ edges' = DeleteClassEdges(edges, nodeId)
    /\ storage' = saveDiagram(nodes', edges')
    /\ Did("deleteNode", nodeId, Len(edges))
    /\ UNCHANGED <<selectedNodeId, selectedEdgeId, selectedSectionIndex, classCounter,
                   isInitialized, reader>>

handleSelectSection(nodeId, section) ==
    /\ isInitialized
    /\ selectedNodeId' = nodeId
    /\ selectedSectionIndex' = section
    /\ nodes' = MarkSection(nodes, nodeId, section)
    /\ storage' = saveDiagram(nodes', edges)
    /\ Did("selectSection", NoId, 0)
    /\ UNCHANGED <<edges, selectedEdgeId, classCounter, isInitialized, reader>>

\* FloatingEdge's click: data?.setSelectedEdge?.(id)
setSelectedEdge(i) ==
    /\ isInitialized
    /\ edges[i].callbacks
    /\ selectedEdgeId' = edges[i].id
    /\ Did("selectEdge", NoId, 0)
    /\ UNCHANGED <<nodes, edges, selectedNodeId, selectedSectionIndex, classCounter,
                   isInitialized, storage, reader>>

\* Date.now() at a connect gesture: a later millisecond than that of every
\* earlier gesture, so a value no edge id in use carries; the least such value
\* stands for it
DateNow ==
    LET used == {edges[i].id[5] : i \in {j \in 1..Len(edges) : Len(edges[j].id) = 5}}
                \cup (IF Len(selectedEdgeId) = 5 THEN {selectedEdgeId[5]} ELSE {})
    IN  CHOOSE t \in 1..(Cardinality(used) + 1) :
            t \notin used /\ \A u \in 1..(t - 1) : u \in used

\* mutant: only the source is tested
InvalidConnection_SourceOnly(source, target) == source = NoId
\* !params.source || !params.target
InvalidConnection(source, target) == source = NoId \/ target = NoId

onConnect(source, sourceHandle, target, targetHandle) ==
    /\ isInitialized
    /\ IF InvalidConnection(source, target)
       THEN UNCHANGED <<edges, storage>>
       ELSE /\ Len(nodes) + Len(edges) < MaxItems
            /\ edges' = updateEdgeIndicesBetweenNodes(
                            addEdge(NewEdge(source, sourceHandle, target, targetHandle,
                                            DateNow), edges),
                            source, target)
            /\ storage' = saveDiagram(nodes, edges')
    /\ Did(IF InvalidConnection(source, target) THEN "connectIgnored" ELSE "connect",
           NoId, Len(edges))
    /\ UNCHANGED <<nodes, selectedNodeId, selectedEdgeId, selectedSectionIndex,
                   classCounter, isInitialized, reader>>

onPaneClick ==
    /\ isInitialized
    /\ selectedEdgeId' = NoEdge
    /\ selectedNodeId' = NoId
    /\ nodes' = ClearSections(nodes)
    /\ storage' = saveDiagram(nodes', edges)
    /\ Did("paneClick", NoId, 0)
    /\ UNCHANGED <<edges, selectedSectionIndex, classCounter, isInitialized, reader>>

clearDiagram ==
    /\ isInitialized
    /\ nodes' = <<>>
    /\ edges' = <<>>
    /\ storage' = saveDiagram(nodes', edges')
    /\ Did("clearDiagram", NoId, 0)
    /\ UNCHANGED <<selectedNodeId, selectedEdgeId, selectedSectionIndex, classCounter,
                   isInitialized, reader>>

\* mutant: the label is written to every edge
updateEdgeLabel_EveryEdge(edgeId, newLabel) ==
    /\ isInitialized
    /\ edges' = [i \in 1..Len(edges) |-> [edges[i] EXCEPT !.label = newLabel]]
    /\ storage' = saveDiagram(nodes, edges')
    /\ Did("updateEdgeLabel", NoId, Len(edges))
    /\ UNCHANGED <<nodes, selectedNodeId, selectedEdgeId, selectedSectionIndex,
                   classCounter, isInitialized, reader>>
\* updateEdgeLabel, called by FloatingEdge when the label input is left
updateEdgeLabel(edgeId, newLabel) ==
    /\ isInitialized
    /\ edges' = [i \in 1..Len(edges) |->
                    IF edges[i].id = edgeId
                    THEN [edges[i] EXCEPT !.label = newLabel] ELSE edges[i]]
    /\ storage' = saveDiagram(nodes, edges')
    /\ Did("updateEdgeLabel", NoId, Len(edges))
    /\ UNCHANGED <<nodes, selectedNodeId, selectedEdgeId, selectedSectionIndex,
                   classCounter, isInitialized, reader>>

\* updateRelationshipType, called by FloatingEdge's select
updateRelationshipType(edgeId, newType) ==
    /\ isInitialized
    /\ edges' = [i \in 1..Len(edges) |->
                    IF edges[i].id = edgeId
                    THEN [edges[i] EXCEPT !.relationshipType = newType] ELSE edges[i]]
    /\ storage' = saveDiagram(nodes, edges')
    /\ Did("updateRelationshipType", NoId, Len(edges))
    /\ UNCHANGED <<nodes, selectedNodeId, selectedEdgeId, selectedSectionIndex,
                   classCounter, isInitialized, reader>>

\* handleUpdateNodeData, called by CustomUMLNode with its three local fields
handleUpdateNodeData(nodeId, updatedData) ==
    /\ isInitialized
    /\ nodes' = [i \in 1..Len(nodes) |->
                    IF nodes[i].id = nodeId
                    THEN [nodes[i] EXCEPT !.className = updatedData.className,
                                          !.attributes = updatedData.attributes,
                                          !.methods = updatedData.methods]
                    ELSE nodes[i]]
    /\ storage' = saveDiagram(nodes', edges)
    /\ Did("updateNodeData", nodeId, 0)
    /\ UNCHANGED <<edges, selectedNodeId, selectedEdgeId, selectedSectionIndex,
                   classCounter, isInitialized, reader>>

\* exportToPlantUML: the text is downloaded as diagram.puml
exportToPlantUML ==
    /\ isInitialized
    /\ exported' = [text |-> exportText(nodes, edges), nodes |-> nodes, edges |-> edges]
    /\ Did("export", NoId, 0)
    /\ UNCHANGED <<nodes, edges, selectedNodeId, selectedEdgeId, selectedSectionIndex,
                   classCounter, isInitialized, storage, reader>>

\* importFromPlantUML: the file read is started
importFromPlantUML(text) ==
    /\ isInitialized
    /\ reader = {}
    /\ reader' = {text}
    /\ Did("importStart", NoId, 0)
    /\ UNCHANGED <<nodes, edges, selectedNodeId, selectedEdgeId, selectedSectionIndex,
                   classCounter, isInitialized, storage>>

\* mutant: the nodes are replaced in one step and the edges are left for a later one
readerOnload_NodesFirst(text) ==
    /\ text \in reader
    /\ reader' = reader \ {text}
    /\ nodes' = ImportedNodes(text)
    /\ storage' = saveDiagram(nodes', edges)
    /\ Did("import", NoId, Len(edges))
    /\ UNCHANGED <<edges, selectedNodeId, selectedEdgeId, selectedSectionIndex,
                   classCounter, isInitialized>>
\* reader.onload: parse, then setNodes(newNodes) and setEdges(newEdges)
readerOnload(text) ==
    /\ text \in reader
    /\ reader' = reader \ {text}
    /\ nodes' = ImportedNodes(text)
    /\ edges' = ImportedEdges(text)
    /\ storage' = saveDiagram(nodes', edges')
    /\ Did("import", NoId, Len(edges))
    /\ UNCHANGED <<selectedNodeId, selectedEdgeId, selectedSectionIndex, classCounter,
                   isInitialized>>

\* the row the Delete key removes from currentNode at section index s >= 2:
\* `if (selectedSectionIndex < 2 + attrCount)` attrIndex, else methIndex
DeleteTarget(currentNode, s) ==
    LET attrCount == CountOr1(currentNode.attributes)
    IN  IF s < 2 + attrCount
        THEN [list |-> "attributes", index |-> s - 2]
        ELSE [list |-> "methods", index |-> s - 2 - attrCount]

\* mutant: the edge branch is taken only when the selected edge is present
DeleteOnEdge_PresentOnly ==
    \E i \in 1..Len(edges) : edges[i].id = selectedEdgeId
\* `if (selectedEdgeId)`: the Delete key takes its edge branch
DeleteOnEdge == selectedEdgeId # NoEdge

\* handleKeyDown, event.key === 'Delete'
KeyDelete ==
    /\ isInitialized
    /\ IF DeleteOnEdge
       THEN LET k == FindIndex([i_ \in 1..Len(edges) |-> edges[i_].id = selectedEdgeId])
            IN  IF k # 0
                THEN /\ edges' = updateEdgeIndicesBetweenNodes(
                                     SelectSeq(edges, LAMBDA e : e.id # selectedEdgeId),
                                     edges[k].source, edges[k].target)
                     /\ selectedEdgeId' = NoEdge
                     /\ storage' = saveDiagram(nodes, edges')
                     /\ UNCHANGED nodes
                ELSE UNCHANGED <<nodes, edges, selectedEdgeId, storage>>
       ELSE IF selectedNodeId # NoId
       THEN LET currentNodeIndex == FindIndex([i_ \in 1..Len(nodes) |-> nodes[i_].id = selectedNodeId])
            IN  IF currentNodeIndex # 0
                THEN LET currentNode == nodes[currentNodeIndex]
                     IN  IF selectedSectionIndex = 0 \/ selectedSectionIndex = 1
                         THEN /\ nodes' = DeleteClassNodes(nodes, currentNode.id)
                              /\ edges' = DeleteClassEdges(edges, currentNode.id)
                              /\ storage' = saveDiagram(nodes', edges')
                              /\ UNCHANGED selectedEdgeId
                         ELSE /\ nodes' =
                                   LET row == DeleteTarget(currentNode, selectedSectionIndex)
                                   IN  IF row.list = "attributes"
                                       THEN [nodes EXCEPT ![currentNodeIndex].attributes =
                                                Splice1(@, row.index)]
                                       ELSE [nodes EXCEPT ![currentNodeIndex].methods =
                                                Splice1(@, row.index)]
                              /\ storage' = saveDiagram(nodes', edges)
                              /\ UNCHANGED <<edges, selectedEdgeId>>
                ELSE UNCHANGED <<nodes, edges, selectedEdgeId, storage>>
       ELSE UNCHANGED <<nodes, edges, selectedEdgeId, storage>>
    /\ Did("keyDelete", NoId, Len(edges))
    /\ UNCHANGED <<selectedNodeId, selectedSectionIndex, classCounter, isInitialized,
                   reader>>

\* the node and the section the Tab handler moves to from node index
\* currentNodeIndex (1-based) and selectedSectionIndex
TabTarget(ns, currentNodeIndex, sectionIndex, shiftKey) ==
    LET newSectionIndex == sectionIndex + (IF shiftKey THEN -1 ELSE 1)
        next == (currentNodeIndex % Len(ns)) + 1
        prev == ((currentNodeIndex - 2 + Len(ns)) % Len(ns)) + 1
    IN  IF newSectionIndex >= TotalSections(ns[currentNodeIndex])
        THEN [index |-> next, section |-> 0]
        ELSE IF newSectionIndex < 0
        THEN [index |-> prev,
              section |-> 2 + Len(ns[prev].attributes) + Len(ns[prev].methods) - 1]
        ELSE [index |-> currentNodeIndex, section |-> newSectionIndex]

\* handleKeyDown, event.key === 'Tab'
KeyTab(shiftKey) ==
    /\ isInitialized
    /\ LET found == FindIndex([i_ \in 1..Len(nodes) |-> nodes[i_].id = selectedNodeId])
           currentNodeIndex == IF found = 0 /\ Len(nodes) > 0 THEN 1 ELSE found
       IN  IF currentNodeIndex # 0
           THEN LET to == TabTarget(nodes, currentNodeIndex, selectedSectionIndex, shiftKey)
                IN  /\ selectedNodeId' = nodes[to.index].id
                    /\ selectedSectionIndex' = to.section
                    /\ nodes' = MarkSection(nodes, nodes[to.index].id, to.section)
                    /\ storage' = saveDiagram(nodes', edges)
           ELSE UNCHANGED <<nodes, selectedNodeId, selectedSectionIndex, storage>>
    /\ Did(IF shiftKey THEN "shiftTab" ELSE "tab", NoId, 0)
    /\ UNCHANGED <<edges, selectedEdgeId, classCounter, isInitialized, reader>>

----------------------------------------------------------------------------
(* Specifications.  The handlers are grouped by the part of the engine they  *)
(* exercise; a history variable is written only where it is read.            *)

AnyDeleteClass == \E i \in 1..Len(nodes) : handleDeleteClass(nodes[i].id)
AnySelectSection ==
    \E i \in 1..Len(nodes) : \E s \in 0..(TotalSections(nodes[i]) - 1) :
        handleSelectSection(nodes[i].id, s)
AnySelectEdge == \E i \in 1..Len(edges) : setSelectedEdge(i)
AnyConnect ==
    \E source, target \in NodeIds(nodes) \cup {NoId} :
        \E sh \in SourceHandles, th \in TargetHandles :
            onConnect(source, sh, target, th)
AnyOnload == \E text \in reader : readerOnload(text)
AnyKeyTab == \E shiftKey \in BOOLEAN : KeyTab(shiftKey)

\* Node Store and Edge Store: sessions, nodes, edges, deletion, import
Next ==
    /\ \/ LoadEffect
       \/ OpenPage
       \/ handleAddNode
       \/ AnyDeleteClass
       \/ AnySelectEdge
       \/ AnyConnect
       \/ clearDiagram
       \/ importFromPlantUML(TextLoop)
       \/ AnyOnload
       \/ KeyDelete
    /\ UNCHANGED <<history, timers>>

Spec == Init /\ [][Next]_vars

\* Identity Allocator: sessions, addNode and deletion, with the ids issued and
\* loaded written to the history
LoadEffectRecorded ==
    /\ LoadEffect
    /\ session' = [from |-> storage.kind, loadedIds |-> NodeIds(nodes'),
                   issuedIds |-> <<>>]
    /\ UNCHANGED <<issued, ring, mount, exported, timers>>

OpenPageRecorded ==
    /\ OpenPage
    /\ session' = NoSession
    /\ UNCHANGED <<issued, ring, mount, exported, timers>>

handleAddNodeRecorded ==
    /\ handleAddNode
    /\ issued' = issued \cup {classCounter}
    /\ session' = [session EXCEPT !.issuedIds = Append(@, classCounter)]
    /\ UNCHANGED <<ring, mount, exported, timers>>

NextIds ==
    \/ LoadEffectRecorded
    \/ OpenPageRecorded
    \/ handleAddNodeRecorded
    \/ AnyDeleteClass /\ UNCHANGED <<history, timers>>
    \/ KeyDelete /\ UNCHANGED <<history, timers>>
    \/ clearDiagram /\ UNCHANGED <<history, timers>>

SpecIds == Init /\ [][NextIds]_vars

\* Selection Model and Keyboard Navigator
NextSelection ==
    /\ \/ LoadEffect
       \/ handleAddNode
       \/ AnySelectSection
       \/ AnyKeyTab
       \/ KeyDelete
       \/ onPaneClick
       \/ importFromPlantUML(TextWide)
       \/ AnyOnload
    /\ UNCHANGED <<history, timers>>

SpecSelection == Init /\ [][NextSelection]_vars

\* The focus ring: a run of Tab presses with nothing in between.  A run starts
\* at any Tab pressed while a present node is selected at one of its sections;
\* ring.total is the number of sections of all nodes at that moment.
RECURSIVE SumSections(_)
SumSections(ns) ==
    IF ns = <<>> THEN 0 ELSE TotalSections(Head(ns)) + SumSections(Tail(ns))

InsideRing ==
    LET k == FindIndex([i_ \in 1..Len(nodes) |-> nodes[i_].id = selectedNodeId])
    IN  k # 0 /\ selectedSectionIndex \in 0..(TotalSections(nodes[k]) - 1)

TabPress ==
    /\ KeyTab(FALSE)
    /\ \/ /\ InsideRing
          /\ ring' = [count |-> 1, total |-> SumSections(nodes),
                      startId |-> selectedNodeId, startSection |-> selectedSectionIndex]
       \/ /\ ring.count > 0
          /\ ring.count < ring.total
          /\ ring' = [ring EXCEPT !.count = @ + 1]
    /\ UNCHANGED <<issued, session, mount, exported, timers>>

NextRing ==
    \/ LoadEffect /\ UNCHANGED <<history, timers>>
    \/ handleAddNode /\ ring' = NoRing /\ UNCHANGED <<issued, session, mount, exported, timers>>
    \/ importFromPlantUML(TextWide) /\ ring' = NoRing /\ UNCHANGED <<issued, session, mount, exported, timers>>
    \/ AnyOnload /\ ring' = NoRing /\ UNCHANGED <<issued, session, mount, exported, timers>>
    \/ KeyDelete /\ ring' = NoRing /\ UNCHANGED <<issued, session, mount, exported, timers>>
    \/ TabPress

SpecRing == Init /\ [][NextRing]_vars

\* Persistence Bridge: sessions that leave a store behind and load it again
LabelsTyped == {"", "uses"}
TypesPicked == {"dependency"}

AnyUpdateEdgeLabel ==
    \E i \in 1..Len(edges) : \E newLabel \in LabelsTyped :
        edges[i].callbacks /\ updateEdgeLabel(edges[i].id, newLabel)
AnyUpdateRelationshipType ==
    \E i \in 1..Len(edges) : \E newType \in TypesPicked :
        edges[i].callbacks /\ updateRelationshipType(edges[i].id, newType)

LoadEffectMounted ==
    /\ LoadEffect
    /\ mount' = [mount EXCEPT !.before = storage, !.mid = FirstCommitStorage]
    /\ UNCHANGED <<issued, session, ring, exported, timers>>

OpenPageLeft ==
    /\ OpenPage
    /\ mount' = [left |-> [known |-> TRUE, nodes |-> nodes, edges |-> edges],
                 before |-> storage, mid |-> storage]
    /\ UNCHANGED <<issued, session, ring, exported, timers>>

\* mount tells of the mount that ran last, until the next handler runs
Forgetting == mount' = NoMount /\ UNCHANGED <<issued, session, ring, exported, timers>>

NextPersist ==
    \/ LoadEffectMounted
    \/ OpenPageLeft
    \/ handleAddNode /\ Forgetting
    \/ AnyConnect /\ Forgetting
    \/ AnyUpdateEdgeLabel /\ Forgetting
    \/ AnyUpdateRelationshipType /\ Forgetting

SpecPersist == Init /\ [][NextPersist]_vars

\* Text Interchange: a diagram is edited, exported, and the downloaded file is
\* imported
DataA == [className |-> <<"A">>, attributes |-> <<"x">>, methods |-> <<"y()">>]
DataB == [className |-> <<"B">>, attributes |-> <<>>, methods |-> <<>>]

\* the user types the fields of class A into the first node and those of class B
\* into every other node
AnyUpdateNodeData ==
    \E i \in 1..Len(nodes) :
        handleUpdateNodeData(nodes[i].id, IF i = 1 THEN DataA ELSE DataB)

\* the user picks Dependency in the select of an edge
AnyPickDependency ==
    \E i \in 1..Len(edges) :
        edges[i].callbacks /\ updateRelationshipType(edges[i].id, "dependency")

\* the file offered to the picker is the one downloaded from the store as it
\* is: an edit makes the download stale.  The read of the picked file completes
\* before the next gesture.
Editing ==
    /\ reader = {}
    /\ exported' = NoExport
    /\ UNCHANGED <<issued, session, ring, mount, timers>>

NextInterchange ==
    \/ LoadEffect /\ UNCHANGED <<history, timers>>
    \/ handleAddNode /\ Editing
    \/ AnyUpdateNodeData /\ Editing
    \/ AnyConnect /\ Editing
    \/ AnyPickDependency /\ Editing
    \/ reader = {} /\ exportToPlantUML /\ UNCHANGED <<issued, session, ring, mount, timers>>
    \/ exported # NoExport /\ importFromPlantUML(exported.text) /\ UNCHANGED <<history, timers>>
    \/ AnyOnload /\ UNCHANGED <<history, timers>>

SpecInterchange == Init /\ [][NextInterchange]_vars

\* The focus ring walked there and back: a press of Tab or Shift+Tab while a
\* present node is selected at one of its sections, then the opposite press
PressThere ==
    /\ InsideRing
    /\ \E shiftKey \in BOOLEAN : KeyTab(shiftKey)
    /\ ring' = [count |-> 1, total |-> 2,
                startId |-> selectedNodeId, startSection |-> selectedSectionIndex]
    /\ UNCHANGED <<issued, session, mount, exported, timers>>

PressBack ==
    /\ ring.count = 1
    /\ ring.total = 2
    /\ KeyTab(last.op = "tab")
    /\ ring' = [ring EXCEPT !.count = 2]
    /\ UNCHANGED <<issued, session, mount, exported, timers>>

NextThereAndBack ==
    \/ LoadEffect /\ UNCHANGED <<history, timers>>
    \/ handleAddNode /\ ring' = NoRing /\ UNCHANGED <<issued, session, mount, exported, timers>>
    \/ importFromPlantUML(TextWide) /\ ring' = NoRing
            /\ UNCHANGED <<issued, session, mount, exported, timers>>
    \/ AnyOnload /\ ring' = NoRing /\ UNCHANGED <<issued, session, mount, exported, timers>>
    \/ KeyDelete /\ ring' = NoRing /\ UNCHANGED <<issued, session, mount, exported, timers>>
    \/ PressThere
    \/ PressBack

SpecThereAndBack == Init /\ [][NextThereAndBack]_vars

\* Gestures on the canvas: classes are added, connected, selected by section
\* and deselected by a click on the pane
NextGestures ==
    /\ \/ LoadEffect
       \/ handleAddNode
       \/ AnyConnect
       \/ AnySelectSection
       \/ onPaneClick
    /\ UNCHANGED <<history, timers>>

SpecGestures == Init /\ [][NextGestures]_vars

\* Rows under the Delete key: classes are added or imported (with or without
\* relationships), a section is selected and the Delete key is pressed
NextRows ==
    /\ \/ LoadEffect
       \/ handleAddNode
       \/ AnySelectSection
       \/ KeyDelete
       \/ importFromPlantUML(TextWide)
       \/ importFromPlantUML(TextLoop)
       \/ AnyOnload
    /\ UNCHANGED <<history, timers>>

SpecRows == Init /\ [][NextRows]_vars

\* Edges of several pairs: a file with two classes and two relationships is
\* imported, the page is reloaded (the loaded edges carry the callbacks), and
\* edges are connected, selected and deleted with the Delete key
NextPairs ==
    /\ \/ LoadEffect
       \/ OpenPage
       \/ importFromPlantUML(TextPairs)
       \/ AnyOnload
       \/ AnyConnect
       \/ AnySelectEdge
       \/ KeyDelete
    /\ UNCHANGED <<history, timers>>

SpecPairs == Init /\ [][NextPairs]_vars

\* an id no edge of the store carries (onConnect ignores a connection without
\* a source): the id of an edge that is gone
AbsentEdgeId == ConnectEdgeId(NoId, NoHandle, NoId, NoHandle, 0)

\* the ids updateEdgeLabel and updateRelationshipType are called with: the id
\* of an edge whose component holds the callbacks, or an id no edge carries
EdgeIdsGiven ==
    {edges[i].id : i \in {k \in 1..Len(edges) : edges[k].callbacks}} \cup {AbsentEdgeId}

\* the label typed into the input of an edge
LabelsGiven == {"uses"}

AnyUpdateEdgeLabelById ==
    \E edgeId \in EdgeIdsGiven : \E newLabel \in LabelsGiven :
        updateEdgeLabel(edgeId, newLabel)
AnyUpdateRelationshipTypeById ==
    \E edgeId \in EdgeIdsGiven : \E newType \in TypesPicked :
        updateRelationshipType(edgeId, newType)

\* Fields of an edge: a file is imported (relationships of two pairs, or two
\* relationships with one id), the page is reloaded (the loaded edges carry
\* the callbacks), an edge is selected, and labels and relationship types are
\* written by id
NextEdgeFields ==
    /\ \/ LoadEffect
       \/ OpenPage
       \/ importFromPlantUML(TextPairs)
       \/ importFromPlantUML(TextLoop)
       \/ AnyOnload
       \/ AnySelectEdge
       \/ AnyUpdateEdgeLabelById
       \/ AnyUpdateRelationshipTypeById
    /\ UNCHANGED <<history, timers>>

SpecEdgeFields == Init /\ [][NextEdgeFields]_vars

\* A selection that outlives its edge: classes are added and connected, an
\* edge is selected, the diagram is cleared and the Delete key is pressed
NextStale ==
    /\ \/ LoadEffect
       \/ handleAddNode
       \/ AnyConnect
       \/ AnySelectEdge
       \/ clearDiagram
       \/ KeyDelete
    /\ UNCHANGED <<history, timers>>

SpecStale == Init /\ [][NextStale]_vars

----------------------------------------------------------------------------
(* The node component (CustomUMLNode in src/src/app/CustomUMLNode.tsx).  Its *)
(* local rows are the rows of its node: the sync effect hands every local    *)
(* change to handleUpdateNodeData in the commit that made it.                *)

\* a row is not added to a list that holds this many
MaxRows == 2

\* the render's `let sectionIndex` once the render has finished: the header,
\* every attribute row (or the attribute placeholder) and every method row (or
\* the method placeholder) ran ++sectionIndex.  The click handlers of the frame,
\* the header and the placeholders read the variable when the click arrives.
RenderedSectionIndex(n) == 1 + CountOr1(n.attributes) + CountOr1(n.methods)

\* `const currentIndex = ++sectionIndex` of the attribute row at index (0-based)
AttributeCurrentIndex(n, index) == 2 + index
\* `const currentIndex = ++sectionIndex` of the method row at index (0-based)
MethodCurrentIndex(n, index) == 2 + CountOr1(n.attributes) + index

\* the sections a click hands to onSelectSection, in the order the handlers
\* run: the handler of the element clicked, then the frame's (the click
\* bubbles; no handler stops it)
ClickSections(n, target, index) ==
    IF target = "frame" THEN <<RenderedSectionIndex(n)>>
    ELSE IF target = "header" THEN <<RenderedSectionIndex(n), RenderedSectionIndex(n)>>
    ELSE IF target = "attribute"
    THEN <<AttributeCurrentIndex(n, index), RenderedSectionIndex(n)>>
    ELSE <<MethodCurrentIndex(n, index), RenderedSectionIndex(n)>>

\* the indexes of the elements of one kind a node shows
ClickIndexes(n, target) ==
    IF target = "attribute" THEN 0..(Len(n.attributes) - 1)
    ELSE IF target = "method" THEN 0..(Len(n.methods) - 1)
    ELSE {0}

\* a run of onSelectSection calls inside one event: the state updates are
\* batched, the last setSelectedNodeId / setSelectedSectionIndex stands and the
\* setNodes updaters are applied in order
RECURSIVE MarkSections(_, _, _)
MarkSections(ns, nodeId, sections) ==
    IF sections = <<>> THEN ns
    ELSE MarkSections(MarkSection(ns, nodeId, Head(sections)), nodeId, Tail(sections))

\* a click on the frame, the header, an attribute row or a method row of the
\* node at position i (last: the element clicked and, for a row, its index)
onClick(i, target, index) ==
    /\ isInitialized
    /\ LET sections == ClickSections(nodes[i], target, index)
       IN  /\ selectedNodeId' = nodes[i].id
           /\ selectedSectionIndex' = sections[Len(sections)]
           /\ nodes' = MarkSections(nodes, nodes[i].id, sections)
    /\ storage' = saveDiagram(nodes', edges)
    /\ last' = [op |-> target, id |-> nodes[i].id, edgesBefore |-> Len(edges),
                index |-> index]
    /\ UNCHANGED <<edges, selectedEdgeId, classCounter, isInitialized, reader, timers>>

\* mutant: the counts are the lengths of the lists, without `|| 1`
FocusTarget_ActualCount(n, selectedSection) ==
    IF selectedSection = 0 THEN [list |-> "frame", index |-> 0]
    ELSE IF selectedSection = 1 THEN [list |-> "header", index |-> 0]
    ELSE IF selectedSection <= 1 + Len(n.attributes)
    THEN [list |-> "attributes", index |-> selectedSection - 2]
    ELSE IF selectedSection <= 1 + Len(n.attributes) + Len(n.methods)
    THEN [list |-> "methods", index |-> selectedSection - (1 + Len(n.attributes) + 1)]
    ELSE [list |-> "none", index |-> 0]
\* the focus effect: the input the component focuses for selectedSection.
\* sectionIdx is 0 at the first test and 1 after `++sectionIdx`; the counts are
\* `localAttributes.length || 1` and `localMethods.length || 1`
FocusTarget(n, selectedSection) ==
    LET attrCount == IF Len(n.attributes) = 0 THEN 1 ELSE Len(n.attributes)
        methodCount == IF Len(n.methods) = 0 THEN 1 ELSE Len(n.methods)
    IN  IF selectedSection = 0 THEN [list |-> "frame", index |-> 0]
        ELSE IF selectedSection = 1 THEN [list |-> "header", index |-> 0]
        ELSE IF selectedSection <= 1 + attrCount
        THEN [list |-> "attributes", index |-> selectedSection - (1 + 1)]
        ELSE IF selectedSection <= 1 + attrCount + methodCount
        THEN [list |-> "methods", index |-> selectedSection - (1 + attrCount + 1)]
        ELSE [list |-> "none", index |-> 0]

\* updatedAttributes.splice(index + 1, 0, '') on a copy of the rows
InsertAfter(rows, index) ==
    SubSeq(rows, 1, index + 1) \o <<"">> \o SubSeq(rows, index + 2, Len(rows))

\* Enter in the attribute input at index of the node at position i:
\* handleAddAttribute(index) sets the local rows (the sync effect hands them to
\* handleUpdateNodeData) and sets a timer that will call
\* onSelectSection(id, selectedSection + 1) with the selectedSection of the
\* render the handler belongs to
handleAddAttribute(i, index) ==
    /\ isInitialized
    /\ nodes[i].selectedSection # null
    /\ Len(nodes[i].attributes) < MaxRows
    /\ nodes' = [nodes EXCEPT ![i].attributes = InsertAfter(@, index)]
    /\ storage' = saveDiagram(nodes', edges)
    /\ timers' = Append(timers, [nodeId |-> nodes[i].id,
                                 section |-> nodes[i].selectedSection + 1])
    /\ Did("addAttribute", nodes[i].id, 0)
    /\ UNCHANGED <<edges, selectedNodeId, selectedEdgeId, selectedSectionIndex,
                   classCounter, isInitialized, reader>>

\* Enter in the method input at index: handleAddMethod(index)
handleAddMethod(i, index) ==
    /\ isInitialized
    /\ nodes[i].selectedSection # null
    /\ Len(nodes[i].methods) < MaxRows
    /\ nodes' = [nodes EXCEPT ![i].methods = InsertAfter(@, index)]
    /\ storage' = saveDiagram(nodes', edges)
    /\ timers' = Append(timers, [nodeId |-> nodes[i].id,
                                 section |-> nodes[i].selectedSection + 1])
    /\ Did("addMethod", nodes[i].id, 0)
    /\ UNCHANGED <<edges, selectedNodeId, selectedEdgeId, selectedSectionIndex,
                   classCounter, isInitialized, reader>>

\* the oldest timer runs: onSelectSection(id, selectedSection + 1)
onTimeout ==
    /\ timers # <<>>
    /\ selectedNodeId' = Head(timers).nodeId
    /\ selectedSectionIndex' = Head(timers).section
    /\ nodes' = MarkSection(nodes, Head(timers).nodeId, Head(timers).section)
    /\ storage' = saveDiagram(nodes', edges)
    /\ timers' = Tail(timers)
    /\ Did("timeout", Head(timers).nodeId, 0)
    /\ UNCHANGED <<edges, selectedEdgeId, classCounter, isInitialized, reader>>

ClickTargets == {"frame", "header", "attribute", "method"}

AnyClick ==
    \E i \in 1..Len(nodes) : \E target \in ClickTargets :
        \E index \in ClickIndexes(nodes[i], target) : onClick(i, target, index)
AnyAddAttribute ==
    \E i \in 1..Len(nodes) : \E index \in 0..(Len(nodes[i].attributes) - 1) :
        handleAddAttribute(i, index)
AnyAddMethod ==
    \E i \in 1..Len(nodes) : \E index \in 0..(Len(nodes[i].methods) - 1) :
        handleAddMethod(i, index)

Untimed == UNCHANGED timers

\* The node component at work: the parts of the default class are clicked,
\* rows are added with Enter and the pane is clicked
NextComponent ==
    /\ \/ LoadEffect /\ Untimed
       \/ AnyClick
       \/ AnyAddAttribute
       \/ AnyAddMethod
       \/ onTimeout
       \/ onPaneClick /\ Untimed
    /\ UNCHANGED history

SpecComponent == Init /\ [][NextComponent]_vars

----------------------------------------------------------------------------
(* The edge component (FloatingEdge in src/src/app/FloatingEdge.tsx)         *)

\* `data?.edgeIndex || 0`
EdgeIndexOr0(e) == IF e.edgeIndex = undefined \/ e.edgeIndex = 0 THEN 0 ELSE e.edgeIndex
\* `data?.totalEdges || 1`
TotalEdgesOr1(e) == IF e.totalEdges = undefined \/ e.totalEdges = 0 THEN 1 ELSE e.totalEdges

offsetAmount == 20

\* mutant: the half is taken in whole numbers
offset_WholeHalf(edgeIndex, totalEdges) ==
    (edgeIndex - (totalEdges - 1) \div 2) * offsetAmount
\* `(edgeIndex - (totalEdges - 1) / 2) * offsetAmount`: the half of an odd
\* number times the even offsetAmount is a whole number, computed here as the
\* half of the doubled product
offset(edgeIndex, totalEdges) ==
    ((2 * edgeIndex - (totalEdges - 1)) * offsetAmount) \div 2

\* the offset FloatingEdge adds to the label and control point of edge e
EdgeOffset(e) == offset(EdgeIndexOr0(e), TotalEdgesOr1(e))

----------------------------------------------------------------------------
(* Properties *)

\* edge e joins the unordered pair {a, b}
Joins(e, a, b) == {e.source, e.target} = {a, b}

\* the positions of the edges of es that join a and b, in either direction
PairPositions(es, a, b) == {i \in 1..Len(es) : Joins(es[i], a, b)}

\* the edges of es between a and b carry each of 0..k-1 once as edgeIndex and
\* k as totalEdges, k being their number
PairPacked(es, a, b) ==
    LET P == PairPositions(es, a, b)
        k == Cardinality(P)
    IN  /\ {es[i].edgeIndex : i \in P} = 0..(k - 1)
        /\ \A i, j \in P : es[i].edgeIndex = es[j].edgeIndex => i = j
        /\ \A i \in P : es[i].totalEdges = k

FanOut(es) == \A i \in 1..Len(es) : PairPacked(es, es[i].source, es[i].target)

\* C1: no two nodes of the Node Store have the same id
C1_UniqueNodeIds ==
    \A i, j \in 1..Len(nodes) : nodes[i].id = nodes[j].id => i = j

\* C2: an id handleAddNode issues was never issued by handleAddNode before, in
\* this session or an earlier one
C2_NeverReissued == [][handleAddNode => classCounter \notin issued]_vars

\* C3: in a session that loaded a stored flow, classCounter is one more than the
\* largest id loaded or issued so far (1 when there is none), and every id
\* issued is greater than every loaded id and than every id issued before it
C3_ReseededAboveLoaded ==
    session.from = "flow" =>
        LET known == session.loadedIds \cup Range(session.issuedIds)
        IN  /\ classCounter = IF known = {} THEN 1 ELSE Max(known) + 1
            /\ \A k \in 1..Len(session.issuedIds) :
                  /\ \A l \in session.loadedIds : session.issuedIds[k] > l
                  /\ \A j \in 1..(k - 1) : session.issuedIds[j] < session.issuedIds[k]

\* C3 witness: a session loaded nodes from the stored flow and then issued an id
C3_Witness ==
    /\ session.from = "flow"
    /\ session.loadedIds # {}
    /\ Len(session.issuedIds) > 0
    /\ last.op = "addNode"

\* C4: a deleteNode(n) step leaves no node with id n and no edge with source or
\* target n, and keeps every edge that had neither endpoint n
C4_DeleteNodeCascades ==
    [][\A n \in NodeIds(nodes) :
          handleDeleteClass(n) =>
              /\ n \notin NodeIds(nodes')
              /\ \A i \in 1..Len(edges') : edges'[i].source # n /\ edges'[i].target # n
              /\ \A i \in 1..Len(edges) :
                    (edges[i].source # n /\ edges[i].target # n)
                        => \E j \in 1..Len(edges') : edges'[j] = edges[i]]_vars

\* C4 witness: deleteNode has just removed an edge and kept another
C4_Witness ==
    /\ last.op = "deleteNode"
    /\ last.id \notin NodeIds(nodes)
    /\ last.edgesBefore > Len(edges)
    /\ Len(edges) > 0

\* C5: the source and the target of every edge are ids of nodes in the Node Store
C5_ReferentialIntegrity ==
    \A i \in 1..Len(edges) :
        edges[i].source \in NodeIds(nodes) /\ edges[i].target \in NodeIds(nodes)

\* C5 witness: the Delete key has removed a node together with an edge, and an
\* edge between the remaining nodes is left
C5_Witness ==
    /\ last.op = "keyDelete"
    /\ selectedNodeId \notin NodeIds(nodes)
    /\ last.edgesBefore > Len(edges)
    /\ Len(edges) > 0

\* C6: a connect of a and b, or the Delete key on a selected edge of a and b,
\* leaves the k edges between a and b with edgeIndex 0..k-1, each once, and
\* totalEdges k (whether or not the edges were packed before)
C6_PairPackedAfterChange ==
    [][   /\ \A a, b \in NodeIds(nodes) : \A sh \in SourceHandles, th \in TargetHandles :
                onConnect(a, sh, b, th) => PairPacked(edges', a, b)
          /\ (KeyDelete /\ selectedEdgeId # NoEdge) =>
                \A i \in 1..Len(edges) :
                    edges[i].id = selectedEdgeId
                        => PairPacked(edges', edges[i].source, edges[i].target)]_vars

\* C6 witness: a connect has just added an edge to a pair that has another edge
C6_Witness ==
    /\ last.op = "connect"
    /\ Len(edges) > last.edgesBefore
    /\ \E i \in 1..Len(edges) :
          /\ i < Len(edges)
          /\ Joins(edges[i], edges[Len(edges)].source, edges[Len(edges)].target)

\* C7: in every state the edges of every pair carry a permutation of
\* 0..totalEdges-1 and the number of edges of the pair as totalEdges
C7_FanOutInvariant == FanOut(edges)

\* C8: at most one node has a non-null selectedSection
C8_AtMostOneSelectedSection ==
    \A i, j \in 1..Len(nodes) :
        (nodes[i].selectedSection # null /\ nodes[j].selectedSection # null) => i = j

\* C9: a selectSection(nodeId, s) step on a present node sets selectedNodeId and
\* selectedSectionIndex, gives one node of that id the section s and leaves null
\* in every other node
C9_SelectSectionExclusive ==
    [][\A i \in 1..Len(nodes) : \A s \in 0..(TotalSections(nodes[i]) - 1) :
          handleSelectSection(nodes[i].id, s) =>
              /\ selectedNodeId' = nodes[i].id
              /\ selectedSectionIndex' = s
              /\ \E k \in 1..Len(nodes') :
                    /\ nodes'[k].id = nodes[i].id
                    /\ nodes'[k].selectedSection = s
                    /\ \A j \in 1..Len(nodes') :
                          j # k => nodes'[j].selectedSection = null]_vars

\* C10: when as many Tab presses as all nodes have sections have followed one
\* another, the selection is back at the pair it started from
C10_TabCyclicity ==
    (ring.count > 0 /\ ring.count = ring.total) =>
        /\ selectedNodeId = ring.startId
        /\ selectedSectionIndex = ring.startSection

\* C11: when a session has loaded the blob the previous session left, the nodes
\* are those of the store that was left, in the same order with the same
\* className, attributes and methods, and the edges are those of that store
\* with the same source, target, relationshipType and label
C11_PersistenceRoundTrip ==
    (last.op = "load" /\ mount.left.known) =>
        /\ Len(nodes) = Len(mount.left.nodes)
        /\ \A i \in 1..Len(nodes) :
              /\ nodes[i].className = mount.left.nodes[i].className
              /\ nodes[i].attributes = mount.left.nodes[i].attributes
              /\ nodes[i].methods = mount.left.nodes[i].methods
        /\ Len(edges) = Len(mount.left.edges)
        /\ \A i \in 1..Len(edges) :
              /\ edges[i].source = mount.left.edges[i].source
              /\ edges[i].target = mount.left.edges[i].target
              /\ edges[i].relationshipType = mount.left.edges[i].relationshipType
              /\ edges[i].label = mount.left.edges[i].label

\* C12: after the load of a blob that is corrupt or lacks the lists, both
\* stores are empty, nothing is stored under the key and the load has completed
C12_MalformedBlobRecovered ==
    (last.op = "load" /\ mount.before.kind \in {"corrupt", "shapeless"}) =>
        /\ nodes = <<>>
        /\ edges = <<>>
        /\ storage = EmptyStorage
        /\ isInitialized

\* the diagram of C13: class A (attribute x, method y()), class B, and one
\* dependency edge from A to B
IsDiagramAB(ns, es) ==
    /\ Len(ns) = 2
    /\ ns[1].className = <<"A">> /\ ns[1].attributes = <<"x">> /\ ns[1].methods = <<"y()">>
    /\ ns[2].className = <<"B">>
    /\ ns[1].id # ns[2].id
    /\ Len(es) = 1
    /\ es[1].source = ns[1].id /\ es[1].target = ns[2].id
    /\ es[1].relationshipType = "dependency"

\* what the import of the export of that diagram gives, but for the
\* relationship type: two nodes named A and B and one edge from A to B
ImportGivesAB(ns, es) ==
    /\ Len(ns) = 2
    /\ ns[1].className = <<"A">>
    /\ ns[2].className = <<"B">>
    /\ Len(es) = 1
    /\ es[1].source = ns[1].id /\ es[1].target = ns[2].id

\* C13 as stated: the import of the text exported from that diagram gives two
\* nodes A and B and one edge from A to B of type dependency
C13_ExportImportKeepsDependency ==
    [][\A text \in reader :
          (readerOnload(text) /\ text = exported.text
              /\ IsDiagramAB(exported.nodes, exported.edges))
          => (ImportGivesAB(nodes', edges')
              /\ edges'[1].relationshipType = "dependency")]_vars

\* C13 amended: the import of the text exported from that diagram gives two
\* nodes A and B and one edge from A to B, of type association
C13_ExportImportGivesAssociation ==
    [][\A text \in reader :
          (readerOnload(text) /\ text = exported.text
              /\ IsDiagramAB(exported.nodes, exported.edges))
          => (ImportGivesAB(nodes', edges')
              /\ edges'[1].relationshipType = "association")]_vars

\* C13 witness: the export of that diagram has just been imported
C13_Witness ==
    /\ last.op = "import"
    /\ IsDiagramAB(exported.nodes, exported.edges)
    /\ nodes = ImportedNodes(exported.text)
    /\ Len(nodes) = 2
    /\ Len(edges) = 1

\* C14: a connect whose source or target is missing changes neither store nor
\* the selection
C14_InvalidConnectIgnored ==
    [][\A source, target \in NodeIds(nodes) \cup {NoId} :
          \A sh \in SourceHandles, th \in TargetHandles :
              (onConnect(source, sh, target, th) /\ (source = NoId \/ target = NoId))
              => UNCHANGED <<nodes, edges, selectedNodeId, selectedEdgeId,
                             selectedSectionIndex>>]_vars

\* C14 witness: a connect without source or target has run on a store with edges
C14_Witness ==
    /\ last.op = "connectIgnored"
    /\ Len(nodes) > 0
    /\ Len(edges) > 0

\* C15: when the mount has run, the first commit has written nothing (the item
\* is the one found, or was removed), and after the load of a stored flow the
\* item written holds the nodes and edges that were loaded
C15_NoWriteBeforeLoaded ==
    last.op = "load" =>
        /\ mount.mid = mount.before \/ mount.mid = EmptyStorage
        /\ mount.before.kind = "flow" =>
              /\ mount.mid = mount.before
              /\ storage.kind = "flow"
              /\ [i \in 1..Len(storage.nodes) |-> storage.nodes[i].id]
                    = [i \in 1..Len(mount.before.nodes) |-> mount.before.nodes[i].id]
              /\ [i \in 1..Len(storage.edges) |-> storage.edges[i].id]
                    = [i \in 1..Len(mount.before.edges) |-> mount.before.edges[i].id]
              /\ storage.nodes = saveDiagram(nodes, edges).nodes
              /\ storage.edges = saveDiagram(nodes, edges).edges

\* C15 witness: a session has loaded a stored flow that holds nodes and edges
C15_Witness ==
    /\ last.op = "load"
    /\ mount.before.kind = "flow"
    /\ Len(mount.before.nodes) > 0
    /\ Len(mount.before.edges) > 0
    /\ Len(nodes) > 0

\* C16: no two edges of the Edge Store have the same id
C16_UniqueEdgeIds ==
    \A i, j \in 1..Len(edges) : edges[i].id = edges[j].id => i = j

\* C17: Tab while no present node is selected selects section 0 of the first
\* node, and changes nothing when there is no node
C17_TabSelectsFirstNode ==
    [][(KeyTab(FALSE) /\ selectedNodeId \notin NodeIds(nodes)) =>
          IF Len(nodes) > 0
          THEN selectedNodeId' = nodes[1].id /\ selectedSectionIndex' = 0
          ELSE UNCHANGED <<nodes, edges, selectedNodeId, selectedEdgeId,
                           selectedSectionIndex>>]_vars

\* the position of the selected node in store order, 0 when it is not present
SelectedPosition ==
    IF selectedNodeId \in NodeIds(nodes)
    THEN CHOOSE i \in 1..Len(nodes) :
            nodes[i].id = selectedNodeId /\ \A j \in 1..(i - 1) : nodes[j].id # selectedNodeId
    ELSE 0

\* C18: Shift+Tab while a present node is selected at section 0 selects the
\* previous node in store order, cyclically, at its last section
\* 2 + max(attributes,1) + max(methods,1) - 1
C18_ShiftTabUnderflow ==
    [][(KeyTab(TRUE) /\ SelectedPosition # 0 /\ selectedSectionIndex = 0) =>
          LET prev == IF SelectedPosition = 1 THEN Len(nodes) ELSE SelectedPosition - 1
              attrCount == IF Len(nodes[prev].attributes) > 1
                           THEN Len(nodes[prev].attributes) ELSE 1
              methodCount == IF Len(nodes[prev].methods) > 1
                             THEN Len(nodes[prev].methods) ELSE 1
          IN  /\ selectedNodeId' = nodes[prev].id
              /\ selectedSectionIndex' = 2 + attrCount + methodCount - 1]_vars

\* C19: Tab while a present node is selected at section s moves to s + 1 of the
\* same node when s + 1 is below its section count, else to section 0 of the
\* next node, cyclically; the target node carries the new index and every
\* other node null
C19_TabForward ==
    [][(KeyTab(FALSE) /\ SelectedPosition # 0) =>
          LET k == SelectedPosition
              attrCount == IF Len(nodes[k].attributes) > 1
                           THEN Len(nodes[k].attributes) ELSE 1
              methodCount == IF Len(nodes[k].methods) > 1
                             THEN Len(nodes[k].methods) ELSE 1
              stays == selectedSectionIndex + 1 < 2 + attrCount + methodCount
              to == IF stays THEN k ELSE IF k = Len(nodes) THEN 1 ELSE k + 1
              section == IF stays THEN selectedSectionIndex + 1 ELSE 0
          IN  /\ selectedNodeId' = nodes[to].id
              /\ selectedSectionIndex' = section
              /\ nodes'[to].selectedSection = section
              /\ \A j \in 1..Len(nodes') :
                    j # to => nodes'[j].selectedSection = null]_vars

\* C20: a press of Tab or Shift+Tab from a present node at one of its sections,
\* followed by the opposite press, leaves the selection where it started
C20_ThereAndBack ==
    (ring.total = 2 /\ ring.count = 2) =>
        /\ selectedNodeId = ring.startId
        /\ selectedSectionIndex = ring.startSection

\* sequence s with the element at position k left out
Without(s, k) == SubSeq(s, 1, k - 1) \o SubSeq(s, k + 1, Len(s))

\* the fields of an edge the offset recompute does not write
Core(e) ==
    [id |-> e.id, source |-> e.source, target |-> e.target,
     label |-> e.label, relationshipType |-> e.relationshipType]

\* the position of the selected edge in store order, 0 when it is not present
SelectedEdgePosition ==
    IF \E i \in 1..Len(edges) : edges[i].id = selectedEdgeId
    THEN CHOOSE i \in 1..Len(edges) :
            edges[i].id = selectedEdgeId /\ \A j \in 1..(i - 1) : edges[j].id # selectedEdgeId
    ELSE 0

\* C21: the Delete key while a present edge is selected removes that edge and
\* no other, clears the edge selection, leaves the remaining edges of its pair
\* packed, and leaves the nodes and the node selection as they were
C21_DeleteKeyRemovesEdge ==
    [][(KeyDelete /\ SelectedEdgePosition # 0) =>
          LET k == SelectedEdgePosition
          IN  /\ Len(edges') = Len(edges) - 1
              /\ \A i \in 1..Len(edges') :
                    Core(edges'[i]) = Core(Without(edges, k)[i])
              /\ selectedEdgeId' = NoEdge
              /\ PairPacked(edges', edges[k].source, edges[k].target)
              /\ UNCHANGED <<nodes, selectedNodeId, selectedSectionIndex>>]_vars

\* C22: the Delete key while no edge is selected and a present node is selected
\* at section 0 or 1 removes that node and the edges incident to it, and
\* nothing else
C22_DeleteKeyRemovesNode ==
    [][(KeyDelete /\ selectedEdgeId = NoEdge /\ SelectedPosition # 0
            /\ selectedSectionIndex \in {0, 1}) =>
          LET k == SelectedPosition
          IN  /\ nodes' = Without(nodes, k)
              /\ edges' = SelectSeq(edges, LAMBDA e : e.source # nodes[k].id
                                                      /\ e.target # nodes[k].id)]_vars

\* C23: the Delete key while no edge is selected and a present node is selected
\* at section s >= 2 removes the attribute at s - 2 when s < 2 + A, A being
\* max(attribute count, 1), else the method at s - 2 - A; nothing is removed
\* when there is no row at that position; the node stays, the other rows keep
\* their order, and the other nodes and the edges are unchanged
C23_DeleteKeyRemovesRow ==
    [][(KeyDelete /\ selectedEdgeId = NoEdge /\ SelectedPosition # 0
            /\ selectedSectionIndex >= 2) =>
          LET k == SelectedPosition
              s == selectedSectionIndex
              A == IF Len(nodes[k].attributes) > 1 THEN Len(nodes[k].attributes) ELSE 1
              RemovedAt(rows, p) == IF p \in 1..Len(rows) THEN Without(rows, p) ELSE rows
          IN  /\ Len(nodes') = Len(nodes)
              /\ \A j \in 1..Len(nodes) : j # k => nodes'[j] = nodes[j]
              /\ nodes'[k] =
                    IF s < 2 + A
                    THEN [nodes[k] EXCEPT !.attributes = RemovedAt(@, s - 2 + 1)]
                    ELSE [nodes[k] EXCEPT !.methods = RemovedAt(@, s - 2 - A + 1)]
              /\ UNCHANGED edges]_vars

\* C23 witness: the Delete key has been pressed at the first attribute slot of
\* a selected node whose attributes are all removed, in a store with another
\* node and with edges
C23_Witness ==
    /\ last.op = "keyDelete"
    /\ selectedEdgeId = NoEdge
    /\ SelectedPosition # 0
    /\ selectedSectionIndex = 2
    /\ nodes[SelectedPosition].attributes = <<>>
    /\ Len(nodes[SelectedPosition].methods) > 0
    /\ Len(nodes) > 1
    /\ Len(edges) > 0

\* C24: handleAddNode appends a node with the issued id n, the class name
\* "Class n", one placeholder attribute and one placeholder method, selects it
\* at section 0, and leaves the earlier nodes and the edges as they were
C24_AddNodeAppends ==
    [][handleAddNode =>
          /\ Len(nodes') = Len(nodes) + 1
          /\ nodes'[Len(nodes')].id = classCounter
          /\ nodes'[Len(nodes')].className = <<"Class", ToString(classCounter)>>
          /\ nodes'[Len(nodes')].attributes = <<"attribute: Type">>
          /\ nodes'[Len(nodes')].methods = <<"method(): ReturnType">>
          /\ selectedNodeId' = nodes'[Len(nodes')].id
          /\ selectedSectionIndex' = 0
          /\ \A i \in 1..Len(nodes) :
                /\ nodes'[i].id = nodes[i].id
                /\ nodes'[i].className = nodes[i].className
                /\ nodes'[i].attributes = nodes[i].attributes
                /\ nodes'[i].methods = nodes[i].methods
          /\ UNCHANGED edges]_vars

\* C24 witness: a node has just been added to a store with nodes and edges
C24_Witness ==
    /\ last.op = "addNode"
    /\ Len(nodes) > 1
    /\ Len(edges) > 0
    /\ selectedNodeId = nodes[Len(nodes)].id

ConnectAppends(a, b) ==
    LET k == Cardinality(PairPositions(edges, a, b))
    IN  /\ Len(edges') = Len(edges) + 1
        /\ Cardinality(PairPositions(edges', a, b)) = k + 1
        /\ edges'[Len(edges')].source = a
        /\ edges'[Len(edges')].target = b
        /\ edges'[Len(edges')].label = "Association"
        /\ edges'[Len(edges')].relationshipType = "association"
        /\ edges'[Len(edges')].edgeIndex = k
        /\ edges'[Len(edges')].totalEdges = k + 1
        /\ \A i \in 1..Len(edges) :
              /\ Core(edges'[i]) = Core(edges[i])
              /\ Joins(edges[i], a, b) =>
                    /\ edges'[i].edgeIndex = edges[i].edgeIndex
                    /\ edges'[i].totalEdges = k + 1

\* C25: every valid connect of a and b on a pair with k edges that satisfies
\* the offset invariant appends a new edge: the pair has k + 1 edges, the new
\* edge is last with edgeIndex k and totalEdges k + 1
C25_ConnectAlwaysAppends ==
    [][\A a, b \in NodeIds(nodes) : \A sh \in SourceHandles, th \in TargetHandles :
          (onConnect(a, sh, b, th) /\ PairPacked(edges, a, b))
              => ConnectAppends(a, b)]_vars

\* the edges of es outside the pair of a and b, as they are
OutsidePair(es, a, b) == SelectSeq(es, LAMBDA e : ~Joins(e, a, b))

\* the cores of the edges of es, in store order
Cores(es) == [i \in 1..Len(es) |-> Core(es[i])]

\* C26: a connect on the pair of a and b, or the Delete key on a selected edge
\* of that pair, leaves the edges of every other pair as they are, keeps the
\* order of the edges that stay, and leaves the nodes as they are
C26_RecomputeIsLocal ==
    [][   /\ \A a, b \in NodeIds(nodes) : \A sh \in SourceHandles, th \in TargetHandles :
                onConnect(a, sh, b, th) =>
                    /\ OutsidePair(edges', a, b) = OutsidePair(edges, a, b)
                    /\ SubSeq(Cores(edges'), 1, Len(edges)) = Cores(edges)
                    /\ UNCHANGED nodes
          /\ (KeyDelete /\ SelectedEdgePosition # 0) =>
                LET a == edges[SelectedEdgePosition].source
                    b == edges[SelectedEdgePosition].target
                IN  /\ OutsidePair(edges', a, b) = OutsidePair(edges, a, b)
                    /\ Cores(edges') =
                          Cores(SelectSeq(edges, LAMBDA e : e.id # selectedEdgeId))
                    /\ UNCHANGED nodes]_vars

\* C26 witness: a connect has just added an edge while the store holds an edge
\* of another pair
C26_Witness ==
    /\ last.op = "connect"
    /\ Len(edges) > last.edgesBefore
    /\ \E i \in 1..Len(edges) :
          ~Joins(edges[i], edges[Len(edges)].source, edges[Len(edges)].target)

\* C28: after clearDiagram both stores are empty and nothing is selected
C28_ClearDiagramEmptiesAll ==
    last.op = "clearDiagram" =>
        /\ nodes = <<>>
        /\ edges = <<>>
        /\ selectedNodeId = NoId
        /\ selectedEdgeId = NoEdge

\* the files the user picks in the specifications
ImportTexts == {TextLoop, TextWide, TextPairs}

\* C29: when a file read has completed, the nodes and the edges are both those
\* parsed from the one text, whatever ran between the start of the read and
\* its completion
C29_ImportIsAtomic ==
    last.op = "import" =>
        \E text \in ImportTexts :
            /\ nodes = ImportedNodes(text)
            /\ edges = ImportedEdges(text)

\* C29 witness: a file read has completed on a store that held edges of its
\* own, none of which is left
C29_Witness ==
    /\ last.op = "import"
    /\ last.edgesBefore > 0
    /\ Len(edges) > 0
    /\ \A i \in 1..Len(edges) : Len(edges[i].id) = 2

\* the lines of the text that open a class block, and the names they declare
ClassLines(text) ==
    {i \in 1..Len(text) : Len(text[i]) = 3 /\ text[i][1] = "class" /\ text[i][3] = "{"}
ClassNames(text) == {text[i][2] : i \in ClassLines(text)}

\* the relationship lines of the text, and those that name a class that is
\* not declared
RelationshipLines(text) ==
    {i \in 1..Len(text) : Len(text[i]) = 3 /\ text[i][2] \in RelationWords}
UnresolvedLines(text) ==
    {i \in RelationshipLines(text) :
        text[i][1] \notin ClassNames(text) \/ text[i][3] \notin ClassNames(text)}

\* C30: after an import every edge joins ids of imported nodes, a relationship
\* line that names an undeclared class gives no edge, and every parsed class
\* is kept
C30_UnresolvedDropped ==
    [][\A text \in reader :
          readerOnload(text) =>
              /\ \A i \in 1..Len(edges') :
                    /\ edges'[i].source \in NodeIds(nodes')
                    /\ edges'[i].target \in NodeIds(nodes')
              /\ Len(edges') = Cardinality(RelationshipLines(text) \ UnresolvedLines(text))
              /\ Len(nodes') = Cardinality(ClassLines(text))
              /\ {nodes'[i].className : i \in 1..Len(nodes')}
                    = {<<name>> : name \in ClassNames(text)}]_vars

\* C30 witness: the file with a relationship to an undeclared class has been
\* imported: its class and its two resolved relationships are in the stores
C30_Witness ==
    /\ last.op = "import"
    /\ UnresolvedLines(TextLoop) # {}
    /\ nodes = ImportedNodes(TextLoop)
    /\ Len(nodes) = 1
    /\ Len(edges) = 2

----------------------------------------------------------------------------
(* Scheduling of the node component's selection changes *)

\* C31: every selection change an event causes is applied before the next
\* event is handled; in particular the selection change that adding an
\* attribute or method row sets off does not run after a later event: when a
\* timer callback runs, the handler that ran last is the one that set it and
\* no other callback is waiting.
C31_NoDeferredSelection ==
    [][last'.op = "timeout" =>
          last.op \in {"addAttribute", "addMethod"} /\ Len(timers) = 1]_vars

----------------------------------------------------------------------------
(* Clicks on the parts of a node *)

\* the click recorded in last' selected this section of the node clicked
ClickSelected(section) ==
    /\ selectedNodeId' = last'.id
    /\ selectedSectionIndex' = section
    /\ \A k \in 1..Len(nodes') :
           nodes'[k].id = last'.id => nodes'[k].selectedSection = section

\* C32: once a click has been handled, a click on the frame has selected
\* section 0 of the node, a click on the class-name header section 1, and a
\* click on the attribute row at index i section 2 + i, whatever rows the node
\* has.
C32_ClickSelectsSection ==
    [][/\ last'.op = "frame" => ClickSelected(0)
       /\ last'.op = "header" => ClickSelected(1)
       /\ last'.op = "attribute" => ClickSelected(2 + last'.index)]_vars

----------------------------------------------------------------------------
(* Visual offsets of parallel edges *)

\* the sum of the offsets of the edges of es at the positions P
RECURSIVE SumOffsets(_, _)
SumOffsets(es, P) ==
    IF P = {} THEN 0
    ELSE LET i == CHOOSE x \in P : TRUE
         IN  EdgeOffset(es[i]) + SumOffsets(es, P \ {i})

\* the offsets of the k edges at the positions P are centred
Centred(es, P, k) ==
    /\ \A i \in P : 2 * EdgeOffset(es[i]) = (2 * es[i].edgeIndex - (k - 1)) * 20
    /\ \A i, j \in P : es[i].edgeIndex + es[j].edgeIndex = k - 1 =>
            EdgeOffset(es[i]) = 0 - EdgeOffset(es[j])
    /\ SumOffsets(es, P) = 0
    /\ \A i, j \in P : es[j].edgeIndex = es[i].edgeIndex + 1 =>
            EdgeOffset(es[j]) - EdgeOffset(es[i]) = 20
    /\ k = 1 => \A i \in P : EdgeOffset(es[i]) = 0

\* C33: for a pair whose k edges carry 0..k-1 as edgeIndex and k as totalEdges,
\* the offset of an edge is (edgeIndex - (k - 1)/2) * 20, the offsets of
\* edgeIndex i and k-1-i are negatives of each other, the offsets of the k
\* edges sum to 0, consecutive indices differ by 20, and a single edge has
\* offset 0.
C33_OffsetsCentred ==
    \A n, m \in 1..Len(edges) :
        LET a == edges[n].source
            b == edges[m].target
        IN  PairPacked(edges, a, b) =>
                Centred(edges, PairPositions(edges, a, b),
                        Cardinality(PairPositions(edges, a, b)))

\* a pair holds two edges that carry 0 and 1 as edgeIndex and 2 as totalEdges
C33_Witness ==
    \E n \in 1..Len(edges) :
        /\ PairPacked(edges, edges[n].source, edges[n].target)
        /\ Cardinality(PairPositions(edges, edges[n].source, edges[n].target)) = 2

----------------------------------------------------------------------------
(* Label and relationship type of an edge *)

\* es2 is es with the label of the edge with this id set to v and nothing else
\* changed
OnlyLabelSet(es, es2, edgeId, v) ==
    /\ Len(es2) = Len(es)
    /\ \A i \in 1..Len(es) :
           IF es[i].id = edgeId
           THEN /\ es2[i].label = v
                /\ [es2[i] EXCEPT !.label = es[i].label] = es[i]
           ELSE es2[i] = es[i]

\* es2 is es with the relationshipType of the edge with this id set to t and
\* nothing else changed
OnlyTypeSet(es, es2, edgeId, t) ==
    /\ Len(es2) = Len(es)
    /\ \A i \in 1..Len(es) :
           IF es[i].id = edgeId
           THEN /\ es2[i].relationshipType = t
                /\ [es2[i] EXCEPT !.relationshipType = es[i].relationshipType] = es[i]
           ELSE es2[i] = es[i]

----------------------------------------------------------------------------
(* Selection State against the stores *)

\* C35: selectedEdgeId is null or the id of an edge of the Edge Store; it does
\* not go on naming an edge that a cascading node delete, clearDiagram or an
\* import removed.
C35_SelectedEdgePresent ==
    selectedEdgeId = NoEdge \/ \E i \in 1..Len(edges) : edges[i].id = selectedEdgeId

\* C36: selectedNodeId is null or the id of a node of the Node Store; it does
\* not go on naming a node that the Delete key, deleteNode, clearDiagram or an
\* import removed.
C36_SelectedNodePresent ==
    selectedNodeId = NoId \/ selectedNodeId \in NodeIds(nodes)

\* C37: whenever a node has a non-null selectedSection, selectedNodeId is the
\* id of that node and selectedSectionIndex is that value.
C37_SectionAgreesWithSelection ==
    \A i \in 1..Len(nodes) :
        nodes[i].selectedSection # null =>
            /\ selectedNodeId = nodes[i].id
            /\ selectedSectionIndex = nodes[i].selectedSection

----------------------------------------------------------------------------
(* The Delete key under a selection that names no edge *)

\* selectedEdgeId is set and no edge of the Edge Store carries it
StaleEdgeSelected ==
    /\ selectedEdgeId # NoEdge
    /\ \A i \in 1..Len(edges) : edges[i].id # selectedEdgeId

\* C38: while selectedEdgeId is set but names no edge of the Edge Store, the
\* Delete key changes nothing: no edge and no node is removed, even when a
\* node is selected, and selectedEdgeId stays as it is.
C38_StaleEdgeBlocksDelete ==
    [][(KeyDelete /\ StaleEdgeSelected) =>
          UNCHANGED <<nodes, edges, selectedNodeId, selectedEdgeId,
                      selectedSectionIndex, classCounter, storage>>]_vars

\* the Delete key has just been pressed while the selected edge was gone and a
\* present node was selected at its frame or header
C38_Witness ==
    /\ last.op = "keyDelete"
    /\ StaleEdgeSelected
    /\ selectedNodeId \in NodeIds(nodes)
    /\ selectedSectionIndex \in {0, 1}

----------------------------------------------------------------------------
(* The row a section index names, for the focus effect and for the Delete key *)

\* C39: for every node and every section index s from 2 up to the last
\* section of the node, the focus effect of the node component and the Delete
\* key resolve s to the same list (attributes or methods) and the same
\* position in it, an empty list counting as one row.
C39_FocusAgreesWithDelete ==
    \A i \in 1..Len(nodes) : \A s \in 2..(TotalSections(nodes[i]) - 1) :
        FocusTarget(nodes[i], s) = DeleteTarget(nodes[i], s)

\* a node without attributes and with a method is selected at one of its rows
C39_Witness ==
    \E i \in 1..Len(nodes) :
        /\ nodes[i].attributes = <<>>
        /\ nodes[i].methods # <<>>
        /\ nodes[i].selectedSection # null
        /\ nodes[i].selectedSection >= 2
        /\ selectedNodeId = nodes[i].id

====
